---------------------------- MODULE Spec2Model ----------------------------
(***************************************************************************)
(* A model of kvgo's configuration layer (conf.go): the Config schema,     *)
(* Config.reset (normalisation), Config.Valid, ConfigParse, and the        *)
(* cluster-master helpers ConfigCluster.Master and                         *)
(* ConfigCluster.randMasters.                                              *)
(*                                                                         *)
(* Text that the code takes apart (file contents, inline key data, paths)  *)
(* is a sequence of one-character strings; text that the code only         *)
(* compares (addresses, file names, compression names, error messages) is  *)
(* a TLA+ string.  A Go pointer that may be nil is a sequence of length    *)
(* at most one; a pointer into Cluster.Masters is the 1-based index of the *)
(* entry, 0 for nil.                                                       *)
(***************************************************************************)
EXTENDS Integers, Sequences, FiniteSets, TLC

VARIABLES
    cfg,    \* the Config the operations act on (the receiver *Config)
    fs,     \* the filesystem: file name -> <<>> (unreadable) or <<contents>>
    opts,   \* the option source handed to ConfigParse: key -> value
    old,    \* cfg as it was when the last operation started
    op,     \* the last operation: [name, arg, calls]
    ret     \* what the last operation returned

vars == <<cfg, fs, opts, old, op, ret>>

----------------------------------------------------------------------------
(* Bounds of the model.                                                    *)

MaxMasters == 3
MaxCap == 3
MaxFileLen == 3
MaxPathLen == 3

----------------------------------------------------------------------------
(* Generic helpers.                                                        *)

Min(a, b) == IF a < b THEN a ELSE b

Max(a, b) == IF a > b THEN a ELSE b

Last(s) == s[Len(s)]

Front(s) == SubSeq(s, 1, Len(s) - 1)

RECURSIVE SeqsUpTo(_, _)
SeqsUpTo(S, n) ==
    IF n = 0 THEN {<<>>}
    ELSE LET shorter == SeqsUpTo(S, n - 1)
         IN shorter \cup {Append(s, x) : s \in {t \in shorter : Len(t) = n - 1}, x \in S}

----------------------------------------------------------------------------
(* The schema: type Config and its parts, at their Go zero values.         *)

NilCert == <<>>

ZeroPerformance ==
    [WriteBufferSize |-> 0, BlockCacheSize |-> 0,
     MaxTableSize |-> 0, MaxOpenFiles |-> 0]

ZeroFeature ==
    [WriteMetaDisable |-> FALSE, WriteLogDisable |-> FALSE,
     TableCompressName |-> ""]

ZeroConfig ==
    [Storage |-> [DataDirectory |-> <<>>],
     Server |-> [Bind |-> "", AuthSecretKey |-> "", AuthTLSCert |-> NilCert],
     Performance |-> ZeroPerformance,
     Feature |-> ZeroFeature,
     Cluster |-> [Masters |-> <<>>],
     ClientConnectEnable |-> FALSE]

(* What an operation returns: panic (the call faulted), err (the error's   *)
(* message, "" for nil), master (Master's pointer), ls (randMasters' list  *)
(* of pointers), config (ConfigParse's *Config, <<>> for nil).             *)
NoReturn ==
    [panic |-> FALSE, err |-> "", master |-> 0, ls |-> <<>>, config |-> <<>>]

NoArg == [addr |-> "", cap |-> 0, offset |-> 0]


----------------------------------------------------------------------------
(* ConfigCluster.Master: the first entry whose Addr is addr, or nil.       *)

RECURSIVE MasterLastFrom(_, _, _)
MasterLastFrom(masters, addr, i) ==
    IF i < 1 THEN 0
    ELSE IF addr = masters[i].Addr THEN i
    ELSE MasterLastFrom(masters, addr, i - 1)

MasterLast(masters, addr) == MasterLastFrom(masters, addr, Len(masters))

RECURSIVE MasterFrom(_, _, _)
MasterFrom(masters, addr, i) ==
    IF i > Len(masters) THEN 0
    ELSE IF addr = masters[i].Addr THEN i
    ELSE MasterFrom(masters, addr, i + 1)

Master(masters, addr) == MasterFrom(masters, addr, 1)

----------------------------------------------------------------------------
(* ConfigCluster.randMasters.  rand.Intn(n) returns some k in [0, n) and   *)
(* panics when n <= 0.  The two loops run over Go's 0-based indices and    *)
(* append the pointer Masters[i], here the 1-based index i + 1.            *)

Intn(n) == 0 .. (n - 1)

IntnPanics(n) == n <= 0

RECURSIVE randLoopStrict(_, _, _, _)
randLoopStrict(ls, i, limit, cap) ==
    IF i < limit /\ Len(ls) < cap
    THEN randLoopStrict(Append(ls, i + 1), i + 1, limit, cap)
    ELSE ls

RECURSIVE randLoop(_, _, _, _)
randLoop(ls, i, limit, cap) ==
    IF i < limit /\ Len(ls) <= cap
    THEN randLoop(Append(ls, i + 1), i + 1, limit, cap)
    ELSE ls

randMastersAt(masters, cap, offset) ==
    LET first == randLoop(<<>>, offset, Len(masters), cap)
    IN randLoop(first, 0, offset, cap)

----------------------------------------------------------------------------
(* Config.Valid: the error's message, "" for nil.                          *)

ErrNoMasters == "no cluster/masters setup"

ValidAnyMode(c) ==
    IF Len(c.Cluster.Masters) < 1 THEN ErrNoMasters ELSE ""

Valid(c) ==
    IF c.ClientConnectEnable
    THEN IF Len(c.Cluster.Masters) < 1 THEN ErrNoMasters ELSE ""
    ELSE ""

----------------------------------------------------------------------------
(* The operations on a cluster configuration.                              *)

Addrs == {"x", "y"}

LookupAddrs == Addrs \cup {"z"}

MasterEntries ==
    [Addr : Addrs, AuthSecretKey : {"", "s"}, AuthTLSCert : {NilCert}]

Caps == (0 - 2) .. MaxCap

DoMaster ==
    \E addr \in LookupAddrs :
        /\ op' = [name |-> "Master", arg |-> [NoArg EXCEPT !.addr = addr],
                  calls |-> <<"Master">>]
        /\ ret' = [NoReturn EXCEPT !.master = Master(cfg.Cluster.Masters, addr)]
        /\ old' = cfg
        /\ UNCHANGED <<cfg, fs, opts>>

DoRandMasters ==
    \E cap \in Caps :
        /\ old' = cfg
        /\ UNCHANGED <<cfg, fs, opts>>
        /\ IF IntnPanics(Len(cfg.Cluster.Masters))
           THEN /\ op' = [name |-> "randMasters",
                          arg |-> [NoArg EXCEPT !.cap = cap],
                          calls |-> <<"randMasters", "rand.Intn">>]
                /\ ret' = [NoReturn EXCEPT !.panic = TRUE]
           ELSE \E offset \in Intn(Len(cfg.Cluster.Masters)) :
                /\ op' = [name |-> "randMasters",
                          arg |-> [NoArg EXCEPT !.cap = cap, !.offset = offset],
                          calls |-> <<"randMasters", "rand.Intn">>]
                /\ ret' = [NoReturn EXCEPT
                             !.ls = randMastersAt(cfg.Cluster.Masters, cap, offset)]

DoValid ==
    /\ op' = [name |-> "Valid", arg |-> NoArg, calls |-> <<"Valid">>]
    /\ ret' = [NoReturn EXCEPT !.err = Valid(cfg)]
    /\ old' = cfg
    /\ UNCHANGED <<cfg, fs, opts>>

NoOp == [name |-> "init", arg |-> NoArg, calls |-> <<>>]

NoFiles == [f \in {} |-> <<>>]

NoOpts == [k \in {} |-> <<>>]

ClusterPerformances ==
    {ZeroPerformance,
     [WriteBufferSize |-> 200, BlockCacheSize |-> 16,
      MaxTableSize |-> 1, MaxOpenFiles |-> 20000]}

InitCluster ==
    /\ \E ms \in SeqsUpTo(MasterEntries, MaxMasters), cce \in BOOLEAN,
          perf \in ClusterPerformances :
          cfg = [ZeroConfig EXCEPT !.Cluster.Masters = ms,
                                   !.ClientConnectEnable = cce,
                                   !.Performance = perf]
    /\ fs = NoFiles
    /\ opts = NoOpts
    /\ old = cfg
    /\ op = NoOp
    /\ ret = NoReturn

NextCluster == DoMaster \/ DoRandMasters \/ DoValid

SpecCluster == InitCluster /\ [][NextCluster]_vars

----------------------------------------------------------------------------
(* Config.reset.  The bounds of the four Performance fields.               *)

WriteBufferSizeMin == 4
WriteBufferSizeMax == 128
BlockCacheSizeMin == 8
BlockCacheSizeMax == 4096
MaxTableSizeMin == 8
MaxTableSizeMax == 64
MaxOpenFilesMin == 500
MaxOpenFilesMax == 10000

resetWriteBufferSizeZeroing(v) ==
    IF v < WriteBufferSizeMin THEN WriteBufferSizeMin
    ELSE IF v > WriteBufferSizeMax THEN 0
    ELSE v

resetWriteBufferSize(v) ==
    IF v < WriteBufferSizeMin THEN WriteBufferSizeMin
    ELSE IF v > WriteBufferSizeMax THEN WriteBufferSizeMax
    ELSE v

resetBlockCacheSize(v) ==
    IF v < BlockCacheSizeMin THEN BlockCacheSizeMin
    ELSE IF v > BlockCacheSizeMax THEN BlockCacheSizeMax
    ELSE v

resetMaxTableSizeWide(v) ==
    IF v < MaxTableSizeMin THEN MaxTableSizeMin
    ELSE IF v > WriteBufferSizeMax THEN WriteBufferSizeMax
    ELSE v

resetMaxTableSize(v) ==
    IF v < MaxTableSizeMin THEN MaxTableSizeMin
    ELSE IF v > MaxTableSizeMax THEN MaxTableSizeMax
    ELSE v

resetMaxOpenFiles(v) ==
    IF v < MaxOpenFilesMin THEN MaxOpenFilesMin
    ELSE IF v > MaxOpenFilesMax THEN MaxOpenFilesMax
    ELSE v

resetTableCompressNameFold(name) ==
    IF name \notin {"snappy", "Snappy", "SNAPPY"} THEN "none" ELSE name

resetTableCompressName(name) ==
    IF name # "snappy" THEN "none" ELSE name

(* strings.TrimSpace: drops the leading and the trailing white space.      *)
WhiteSpace == {" ", "\t", "\n", "\r", "\f"}

RECURSIVE TrimLeft(_)
TrimLeft(s) ==
    IF s # <<>> /\ Head(s) \in WhiteSpace THEN TrimLeft(Tail(s)) ELSE s

RECURSIVE TrimRight(_)
TrimRight(s) ==
    IF s # <<>> /\ Last(s) \in WhiteSpace THEN TrimRight(Front(s)) ELSE s

TrimSpace(s) == TrimRight(TrimLeft(s))

(* ioutil.ReadFile: <<>> when the read fails, <<contents>> otherwise.      *)
ReadFile(files, name) ==
    IF name \in DOMAIN files THEN files[name] ELSE <<>>

(* One of the two blocks of reset that fill a data field from its file.    *)
materializeOverwriting(file, data, files) ==
    IF file # ""
    THEN LET bs == ReadFile(files, file)
         IN IF bs # <<>> THEN TrimSpace(bs[1]) ELSE data
    ELSE data

materialize(file, data, files) ==
    IF file # "" /\ data = <<>>
    THEN LET bs == ReadFile(files, file)
         IN IF bs # <<>> THEN TrimSpace(bs[1]) ELSE data
    ELSE data

resetTLSCert(cert, files) ==
    [ServerKeyFile |-> cert.ServerKeyFile,
     ServerKeyData |-> materialize(cert.ServerKeyFile, cert.ServerKeyData, files),
     ServerCertFile |-> cert.ServerCertFile,
     ServerCertData |-> materialize(cert.ServerCertFile, cert.ServerCertData, files)]

reset(c, files) ==
    [c EXCEPT
       !.Performance.WriteBufferSize = resetWriteBufferSize(@),
       !.Performance.BlockCacheSize = resetBlockCacheSize(@),
       !.Performance.MaxTableSize = resetMaxTableSize(@),
       !.Performance.MaxOpenFiles = resetMaxOpenFiles(@),
       !.Feature.TableCompressName = resetTableCompressName(@),
       !.Server.AuthTLSCert =
           IF @ # NilCert THEN <<resetTLSCert(@[1], files)>> ELSE @]

DoReset ==
    /\ op' = [name |-> "reset", arg |-> NoArg, calls |-> <<"reset">>]
    /\ cfg' = reset(cfg, fs)
    /\ ret' = [NoReturn EXCEPT !.config = <<cfg'>>]
    /\ old' = cfg
    /\ UNCHANGED <<fs, opts>>

----------------------------------------------------------------------------
(* The draft configurations reset is applied to.                           *)

Around(lo, hi) == {0, lo - 1, lo, lo + 1, hi, hi + 1}

PerformanceDrafts ==
    [WriteBufferSize : Around(WriteBufferSizeMin, WriteBufferSizeMax),
     BlockCacheSize : Around(BlockCacheSizeMin, BlockCacheSizeMax),
     MaxTableSize : Around(MaxTableSizeMin, MaxTableSizeMax),
     MaxOpenFiles : {0 - 1} \cup Around(MaxOpenFilesMin, MaxOpenFilesMax)]

PerformanceSamples ==
    {ZeroPerformance,
     [WriteBufferSize |-> 129, BlockCacheSize |-> 4097,
      MaxTableSize |-> 65, MaxOpenFiles |-> 10001]}

CompressNames == {"snappy", "none", "", "Snappy", "SNAPPY", "gzip"}

KeyFileName == "server.key"

CertFileName == "server.crt"

FileChars == {"\n", "a"}

FileStates == {<<>>} \cup {<<bs>> : bs \in SeqsUpTo(FileChars, MaxFileLen)}

InlineData == {<<>>, <<"a">>, <<" ">>}

TLSCertDrafts ==
    [ServerKeyFile : {"", KeyFileName}, ServerKeyData : InlineData,
     ServerCertFile : {"", CertFileName}, ServerCertData : InlineData]

InitResetPerformance ==
    /\ \E perf \in PerformanceDrafts, name \in CompressNames :
          cfg = [ZeroConfig EXCEPT !.Performance = perf,
                                   !.Feature.TableCompressName = name]
    /\ fs = NoFiles

InitResetTLS ==
    /\ \E perf \in PerformanceSamples, name \in {"snappy", "gzip"},
          cert \in TLSCertDrafts :
          cfg = [ZeroConfig EXCEPT !.Performance = perf,
                                   !.Feature.TableCompressName = name,
                                   !.Server.AuthTLSCert = <<cert>>]
    /\ fs \in [{KeyFileName, CertFileName} -> FileStates]

InitReset ==
    /\ InitResetPerformance \/ InitResetTLS
    /\ opts = NoOpts
    /\ old = cfg
    /\ op = NoOp
    /\ ret = NoReturn

NextReset == DoReset

SpecReset == InitReset /\ [][NextReset]_vars

----------------------------------------------------------------------------
(* filepath.Clean on a slash-separated path: the shortest equivalent path, *)
(* "." for the empty one.                                                  *)

RECURSIVE SplitPath(_)
SplitPath(p) ==
    IF p = <<>> THEN << <<>> >>
    ELSE LET rest == SplitPath(Tail(p))
         IN IF Head(p) = "/" THEN << <<>> >> \o rest
            ELSE << <<Head(p)>> \o Head(rest) >> \o Tail(rest)

DotDot == <<".", ".">>

RECURSIVE CleanElems(_, _, _)
CleanElems(elems, out, rooted) ==
    IF elems = <<>> THEN out
    ELSE LET e == Head(elems)
             rest == Tail(elems)
         IN IF e = <<>> \/ e = <<".">> THEN CleanElems(rest, out, rooted)
            ELSE IF e = DotDot
            THEN IF out # <<>> /\ Last(out) # DotDot
                 THEN CleanElems(rest, Front(out), rooted)
                 ELSE IF ~rooted THEN CleanElems(rest, Append(out, e), rooted)
                 ELSE CleanElems(rest, out, rooted)
            ELSE CleanElems(rest, Append(out, e), rooted)

RECURSIVE JoinPath(_)
JoinPath(elems) ==
    IF elems = <<>> THEN <<>>
    ELSE IF Len(elems) = 1 THEN elems[1]
    ELSE elems[1] \o <<"/">> \o JoinPath(Tail(elems))

Clean(p) ==
    IF p = <<>> THEN <<".">>
    ELSE LET rooted == Head(p) = "/"
             body == JoinPath(CleanElems(SplitPath(p), <<>>, rooted))
         IN IF rooted THEN <<"/">> \o body
            ELSE IF body = <<>> THEN <<".">>
            ELSE body

NewConfig(dir) == [ZeroConfig EXCEPT !.Storage.DataDirectory = Clean(dir)]

----------------------------------------------------------------------------
(* ConfigParse.  An option source is a function from the keys it holds to  *)
(* their values; Get is opts.Items.Get: <<>> when the key is absent,       *)
(* <<value>> otherwise.  A path or a flag option holds what v.String()     *)
(* yields, a performance option what v.Int() yields.                       *)

KeyDataDirectory == "storage/data_directory"

KeyDataDir == "data_dir"

ErrNoDataDirectory == "No storage/data_directory Found"

Get(o, key) == IF key \in DOMAIN o THEN <<o[key]>> ELSE <<>>

parseDataDirectoryAliasFirst(o) ==
    IF Get(o, KeyDataDir) # <<>>
    THEN <<Clean(Get(o, KeyDataDir)[1])>>
    ELSE IF Get(o, KeyDataDirectory) # <<>>
    THEN <<Clean(Get(o, KeyDataDirectory)[1])>>
    ELSE <<>>

(* The storage block: <<>> when it returns the error.                      *)
parseDataDirectory(o) ==
    IF Get(o, KeyDataDirectory) # <<>>
    THEN <<Clean(Get(o, KeyDataDirectory)[1])>>
    ELSE IF Get(o, KeyDataDir) # <<>>
    THEN <<Clean(Get(o, KeyDataDir)[1])>>
    ELSE <<>>

GetOr(o, key, zero) == IF Get(o, key) # <<>> THEN Get(o, key)[1] ELSE zero

IsTrue(o, key) == Get(o, key) # <<>> /\ Get(o, key)[1] = "true"

(* The Config as the server, performance and feature blocks leave it.      *)
parseDraft(o, dir) ==
    [ZeroConfig EXCEPT
       !.Storage.DataDirectory = dir,
       !.Server.Bind = GetOr(o, "server/bind", @),
       !.Performance.WriteBufferSize = GetOr(o, "performance/write_buffer_size", @),
       !.Performance.BlockCacheSize = GetOr(o, "performance/block_cache_size", @),
       !.Performance.MaxOpenFiles = GetOr(o, "performance/max_open_files", @),
       !.Performance.MaxTableSize = GetOr(o, "performance/max_table_size", @),
       !.Feature.WriteMetaDisable = IsTrue(o, "feature/write_meta_disable"),
       !.Feature.WriteLogDisable = IsTrue(o, "feature/write_log_disable")]

ConfigParseUnnormalized(o, files) ==
    LET dir == parseDataDirectory(o)
    IN IF dir = <<>>
       THEN [config |-> <<>>, err |-> ErrNoDataDirectory,
             calls |-> <<"ConfigParse">>]
       ELSE [config |-> <<parseDraft(o, dir[1])>>, err |-> "",
             calls |-> <<"ConfigParse">>]

ConfigParse(o, files) ==
    LET dir == parseDataDirectory(o)
    IN IF dir = <<>>
       THEN [config |-> <<>>, err |-> ErrNoDataDirectory,
             calls |-> <<"ConfigParse">>]
       ELSE [config |-> <<reset(parseDraft(o, dir[1]), files)>>, err |-> "",
             calls |-> <<"ConfigParse", "reset">>]

DoConfigParse ==
    LET r == ConfigParse(opts, fs)
    IN /\ op' = [name |-> "ConfigParse", arg |-> NoArg, calls |-> r.calls]
       /\ ret' = [NoReturn EXCEPT !.config = r.config, !.err = r.err]
       /\ cfg' = IF r.config # <<>> THEN r.config[1] ELSE cfg
       /\ old' = cfg
       /\ UNCHANGED <<fs, opts>>

----------------------------------------------------------------------------
(* The option sources ConfigParse is applied to.                           *)

PathChars == {"/", ".", "a"}

Paths == SeqsUpTo(PathChars, MaxPathLen)

Optional(S) == {<<>>} \cup {<<x>> : x \in S}

PerformanceKeys ==
    {"performance/write_buffer_size", "performance/block_cache_size",
     "performance/max_open_files", "performance/max_table_size"}

FlagKeys == {"feature/write_meta_disable", "feature/write_log_disable"}

OptionKeys ==
    {KeyDataDirectory, KeyDataDir, "server/bind"} \cup PerformanceKeys \cup FlagKeys

(* The option source holding the keys of o that are present.               *)
OptionSource(o) ==
    [k \in {key \in DOMAIN o : o[key] # <<>>} |-> o[k][1]]

NoOptions == [k \in OptionKeys |-> <<>>]

InitOptsPaths ==
    \E dd \in Optional(Paths), alias \in Optional(Paths) :
       opts = OptionSource(
           [NoOptions EXCEPT ![KeyDataDirectory] = dd,
                             ![KeyDataDir] = alias,
                             !["performance/write_buffer_size"] = <<200>>,
                             !["feature/write_log_disable"] = <<"true">>])

InitOptsSettings ==
    \E dd \in Optional({<<"/", "a">>}), alias \in Optional({<<"a", "/">>}),
       wbs \in Optional({3, 129}), bcs \in Optional({16, 5000}),
       mof \in Optional({0 - 1, 10001}), mts \in Optional({7, 64}),
       wmd \in Optional({"true", "TRUE"}), wld \in Optional({"true", "1"}),
       bind \in Optional({"127.0.0.1:9100"}) :
       opts = OptionSource(
           [NoOptions EXCEPT ![KeyDataDirectory] = dd,
                             ![KeyDataDir] = alias,
                             !["server/bind"] = bind,
                             !["performance/write_buffer_size"] = wbs,
                             !["performance/block_cache_size"] = bcs,
                             !["performance/max_open_files"] = mof,
                             !["performance/max_table_size"] = mts,
                             !["feature/write_meta_disable"] = wmd,
                             !["feature/write_log_disable"] = wld])

InitParse ==
    /\ InitOptsPaths \/ InitOptsSettings
    /\ cfg = NewConfig(<<".", "/">>)
    /\ fs = NoFiles
    /\ old = cfg
    /\ op = NoOp
    /\ ret = NoReturn

NextParse == DoConfigParse \/ DoReset \/ DoValid

SpecParse == InitParse /\ [][NextParse]_vars

----------------------------------------------------------------------------
(* Properties of the cluster helpers, checked under SpecCluster.           *)

Masters == cfg.Cluster.Masters

(* C1: randMasters on an empty Masters list never faults, whatever the     *)
(* cap: it returns an error or an empty result, it does not panic on the   *)
(* random-offset draw.                                                     *)
C1_EmptyListNeverFaults ==
    (op.name = "randMasters" /\ Len(Masters) = 0) => ~ret.panic

(* C2: on a non-empty Masters list of length n, for every cap, randMasters *)
(* returns the first min(n, max(0, cap + 1)) entries of the rotation of    *)
(* Masters that starts at some offset k in [0, n): entry j of the result   *)
(* is Masters[(k + j) mod n], and no position is returned twice.           *)
C2_Rotation ==
    (op.name = "randMasters" /\ Len(Masters) > 0) =>
        LET n == Len(Masters)
            want == Min(n, Max(0, op.arg.cap + 1))
        IN /\ ~ret.panic
           /\ Len(ret.ls) = want
           /\ \E k \in 0 .. (n - 1) :
                 \A j \in 0 .. (want - 1) : ret.ls[j + 1] = ((k + j) % n) + 1
           /\ \A i, j \in 1 .. Len(ret.ls) : ret.ls[i] = ret.ls[j] => i = j

C2_Witness ==
    /\ op.name = "randMasters"
    /\ Len(Masters) = 3
    /\ op.arg.cap = 1
    /\ ret.ls = <<3, 1>>

(* C3: Valid returns "no cluster/masters setup" exactly when               *)
(* ClientConnectEnable is set and Masters is empty, and nil otherwise,     *)
(* whatever the other fields hold.                                         *)
C3_ValidError ==
    op.name = "Valid" =>
        /\ ret.err = ErrNoMasters <=> (cfg.ClientConnectEnable /\ Len(Masters) = 0)
        /\ ret.err # ErrNoMasters => ret.err = ""
        /\ ~ret.panic

C3_Witness ==
    /\ op.name = "Valid"
    /\ cfg.ClientConnectEnable
    /\ Len(Masters) = 0
    /\ cfg.Performance.WriteBufferSize = 200
    /\ ret.err = ErrNoMasters

(* C10: Master(addr) returns the entry of Masters with the lowest index    *)
(* whose Addr is addr, also when several entries share the address, nil    *)
(* exactly when no entry has it, and it leaves Masters unchanged.          *)
C10_FirstMatch ==
    op.name = "Master" =>
        LET matches == {i \in 1 .. Len(Masters) : Masters[i].Addr = op.arg.addr}
        IN /\ ret.master = 0 <=> matches = {}
           /\ matches # {} =>
                 /\ ret.master \in matches
                 /\ \A i \in matches : ret.master <= i
           /\ cfg = old
           /\ ~ret.panic

C10_Witness ==
    /\ op.name = "Master"
    /\ op.arg.addr = "y"
    /\ Len(Masters) = 3
    /\ Masters[1].Addr = "x"
    /\ Masters[2] = [Addr |-> "y", AuthSecretKey |-> "s", AuthTLSCert |-> NilCert]
    /\ Masters[3] = [Addr |-> "y", AuthSecretKey |-> "", AuthTLSCert |-> NilCert]
    /\ ret.master = 2

----------------------------------------------------------------------------
(* Properties of reset, checked under SpecReset.                           *)

Clamp(v, lo, hi) == Max(lo, Min(v, hi))

Clamped(perf) ==
    [WriteBufferSize |->
         Clamp(perf.WriteBufferSize, WriteBufferSizeMin, WriteBufferSizeMax),
     BlockCacheSize |->
         Clamp(perf.BlockCacheSize, BlockCacheSizeMin, BlockCacheSizeMax),
     MaxTableSize |-> Clamp(perf.MaxTableSize, MaxTableSizeMin, MaxTableSizeMax),
     MaxOpenFiles |-> Clamp(perf.MaxOpenFiles, MaxOpenFilesMin, MaxOpenFilesMax)]

Completed == ~ret.panic /\ ret.err = ""

(* C5: reset sets each Performance field to its input clamped into the     *)
(* field's own interval ([4,128], [8,4096], [8,64], [500,10000]): a value  *)
(* in range is kept, one out of range is pulled to the nearest bound and   *)
(* never rejected, each field independently of the others.                 *)
C5_Clamp ==
    op.name = "reset" =>
        /\ cfg.Performance = Clamped(old.Performance)
        /\ Completed

C5_Witness ==
    /\ op.name = "reset"
    /\ old.Performance = [WriteBufferSize |-> 3, BlockCacheSize |-> 4097,
                          MaxTableSize |-> 9, MaxOpenFiles |-> 10001]
    /\ cfg.Performance = [WriteBufferSize |-> 4, BlockCacheSize |-> 4096,
                          MaxTableSize |-> 9, MaxOpenFiles |-> 10000]

(* C6: reset is idempotent: with the files unchanged, resetting the Config *)
(* that reset returned changes no field of it.                             *)
C6_Idempotent ==
    op.name = "reset" =>
        /\ ret.config = <<cfg>>
        /\ reset(cfg, fs) = cfg

C6_Witness ==
    /\ op.name = "reset"
    /\ old.Performance.WriteBufferSize = 129
    /\ old.Feature.TableCompressName = "gzip"
    /\ old.Server.AuthTLSCert # NilCert
    /\ old.Server.AuthTLSCert[1].ServerKeyFile = KeyFileName
    /\ old.Server.AuthTLSCert[1].ServerKeyData = <<>>
    /\ fs[KeyFileName] = << <<"\n", "a", "\n">> >>
    /\ cfg.Server.AuthTLSCert[1].ServerKeyData = <<"a">>
    /\ cfg # old

(* C7: after reset TableCompressName is "snappy" or "none": "snappy"       *)
(* exactly when the input was the exact string "snappy", "none" for every  *)
(* other input, and no error is raised.                                    *)
C7_CompressName ==
    op.name = "reset" =>
        /\ cfg.Feature.TableCompressName \in {"snappy", "none"}
        /\ cfg.Feature.TableCompressName = "snappy"
              <=> old.Feature.TableCompressName = "snappy"
        /\ Completed

C7_Witness ==
    /\ op.name = "reset"
    /\ old.Feature.TableCompressName = "Snappy"
    /\ cfg.Feature.TableCompressName = "none"

(* t is s without its leading and trailing white space.                    *)
IsTrimOf(t, s) ==
    /\ t # <<>> => Head(t) \notin WhiteSpace /\ Last(t) \notin WhiteSpace
    /\ \E i \in 0 .. Len(s) :
          /\ i + Len(t) <= Len(s)
          /\ t = SubSeq(s, i + 1, i + Len(t))
          /\ \A j \in (1 .. i) \cup ((i + Len(t) + 1) .. Len(s)) :
                s[j] \in WhiteSpace

(* What C8 says of one file/data pair.                                     *)
Materialized(file, before, after) ==
    /\ before # <<>> => after = before
    /\ (file # "" /\ before = <<>> /\ ReadFile(fs, file) # <<>>) =>
          IsTrimOf(after, ReadFile(fs, file)[1])
    /\ (file # "" /\ before = <<>> /\ ReadFile(fs, file) = <<>>) =>
          after = <<>>

(* C8: in reset, for the key and for the certificate independently, a      *)
(* non-empty data field is never overwritten; with the file set and the    *)
(* data empty, a successful read stores the file's contents trimmed of     *)
(* white space; a failed read leaves the data empty, and reset still       *)
(* completes without error and applies the clamps and the compression      *)
(* coercion.                                                               *)
C8_TLSMaterialization ==
    (op.name = "reset" /\ old.Server.AuthTLSCert # NilCert) =>
        LET before == old.Server.AuthTLSCert[1]
            after == cfg.Server.AuthTLSCert[1]
        IN /\ Materialized(before.ServerKeyFile, before.ServerKeyData,
                           after.ServerKeyData)
           /\ Materialized(before.ServerCertFile, before.ServerCertData,
                           after.ServerCertData)
           /\ Completed
           /\ cfg.Performance = Clamped(old.Performance)
           /\ cfg.Feature.TableCompressName \in {"snappy", "none"}

C8_Witness ==
    /\ op.name = "reset"
    /\ old.Server.AuthTLSCert # NilCert
    /\ old.Server.AuthTLSCert[1] =
           [ServerKeyFile |-> KeyFileName, ServerKeyData |-> <<>>,
            ServerCertFile |-> CertFileName, ServerCertData |-> <<>>]
    /\ fs[KeyFileName] = << <<"\n", "a", "\n">> >>
    /\ fs[CertFileName] = <<>>
    /\ cfg.Server.AuthTLSCert[1].ServerKeyData = <<"a">>
    /\ cfg.Server.AuthTLSCert[1].ServerCertData = <<>>
    /\ old.Performance.WriteBufferSize = 129
    /\ cfg.Performance.WriteBufferSize = 128
    /\ old.Feature.TableCompressName = "gzip"
    /\ cfg.Feature.TableCompressName = "none"

----------------------------------------------------------------------------
(* Properties of ConfigParse, checked under SpecParse.                     *)

HasDataDirectory == KeyDataDirectory \in DOMAIN opts

HasDataDir == KeyDataDir \in DOMAIN opts

(* C4: ConfigParse takes the data directory from "storage/data_directory"  *)
(* when that key is present, also when "data_dir" is present too, and      *)
(* otherwise from "data_dir"; with neither it returns the error            *)
(* "No storage/data_directory Found" and no Config, and it returns an      *)
(* error in no other case.  The value it takes goes through                *)
(* filepath.Clean.                                                         *)
C4_DataDirectoryPrecedence ==
    op.name = "ConfigParse" =>
        /\ HasDataDirectory =>
              /\ ret.config # <<>>
              /\ ret.config[1].Storage.DataDirectory = Clean(opts[KeyDataDirectory])
        /\ (~HasDataDirectory /\ HasDataDir) =>
              /\ ret.config # <<>>
              /\ ret.config[1].Storage.DataDirectory = Clean(opts[KeyDataDir])
        /\ (~HasDataDirectory /\ ~HasDataDir) =>
              /\ ret.err = ErrNoDataDirectory
              /\ ret.config = <<>>
        /\ ret.err # "" <=> (~HasDataDirectory /\ ~HasDataDir)
        /\ ~ret.panic

C4_Witness ==
    /\ op.name = "ConfigParse"
    /\ HasDataDirectory
    /\ HasDataDir
    /\ opts[KeyDataDirectory] = <<"/", "a", "/">>
    /\ opts[KeyDataDir] = <<"a">>
    /\ ret.err = ""
    /\ ret.config[1].Storage.DataDirectory = <<"/", "a">>

InRange(perf) ==
    /\ perf.WriteBufferSize \in WriteBufferSizeMin .. WriteBufferSizeMax
    /\ perf.BlockCacheSize \in BlockCacheSizeMin .. BlockCacheSizeMax
    /\ perf.MaxTableSize \in MaxTableSizeMin .. MaxTableSizeMax
    /\ perf.MaxOpenFiles \in MaxOpenFilesMin .. MaxOpenFilesMax

(* C9: whenever the option source supplies a data directory ConfigParse    *)
(* succeeds, and the Config it returns is normalized and not validated:    *)
(* the four Performance fields are inside their intervals,                 *)
(* TableCompressName is "snappy" or "none", reset leaves the Config as it  *)
(* is, and the parse ends with reset and never calls Valid.                *)
C9_ParsedIsNormalized ==
    op.name = "ConfigParse" =>
        /\ (HasDataDirectory \/ HasDataDir) => (ret.err = "" /\ ret.config # <<>>)
        /\ ret.config # <<>> =>
              LET c == ret.config[1]
              IN /\ InRange(c.Performance)
                 /\ c.Feature.TableCompressName \in {"snappy", "none"}
                 /\ reset(c, fs) = c
                 /\ Last(op.calls) = "reset"
                 /\ \A i \in 1 .. Len(op.calls) : op.calls[i] # "Valid"

C9_Witness ==
    /\ op.name = "ConfigParse"
    /\ ret.err = ""
    /\ "performance/write_buffer_size" \in DOMAIN opts
    /\ opts["performance/write_buffer_size"] = 129
    /\ "performance/block_cache_size" \notin DOMAIN opts
    /\ ret.config[1].Performance.WriteBufferSize = 128
    /\ ret.config[1].Performance.BlockCacheSize = 8
    /\ ret.config[1].Cluster.Masters = <<>>

=============================================================================
